---- MODULE Spec2Model ----
(***************************************************************************)
(* RustFlow: a single-symbol limit order book with an embedded matching    *)
(* engine (src/src/core/order_books.rs, src/src/core/matcher.rs,           *)
(* src/src/models/order.rs, src/src/models/stats.rs).                      *)
(*                                                                         *)
(* The book is single-writer: every public operation runs to completion,  *)
(* so each public method is one action.  A BTreeMap<u64, Vec<Order>> is a  *)
(* function whose DOMAIN is the key set (a key may map to the empty        *)
(* sequence); the HashMap orders_by_id is a function whose DOMAIN is the   *)
(* set of ids it holds.  Option<u64> is <<>> (None) or <<v>> (Some(v)).    *)
(* An OrderType is a tuple: <<"Limit">>, <<"Market">>, <<"IOC">>,          *)
(* <<"FOK">>, <<"Stop", stop>>, <<"StopLimit", stop, limit>>.              *)
(***************************************************************************)
EXTENDS Integers, Sequences, FiniteSets

\* ---------------------------------------------------------------- bounds
\* Number of process_order calls of one run; ids are 1..MaxOrders, each used once.
MaxOrders == 3
\* Prices (limit, stop and StopLimit price fields) range over 1..MaxPrice.
MaxPrice == 2
\* Order quantities range over 1..MaxQty.
MaxQty == 2
\* Submitter-supplied timestamps range over 1..MaxTs.
MaxTs == 2

\* u64::MAX, the price new_market gives a Buy and the largest value a u64
\* sum can take; u64 is narrowed to 31 bits, the integer range of TLC,
\* and sums that can pass it are computed without leaving that range.
U64Max == 2147483647

Prices == 1..MaxPrice
Qtys == 1..MaxQty
Timestamps == 1..MaxTs
Ids == 1..MaxOrders

VARIABLES bids, asks, orders_by_id, last_trade_id, stats, tradeLog, last, nextId, panicked,
          trade_store, added, runs, matching

vars == <<bids, asks, orders_by_id, last_trade_id, stats, tradeLog, last, nextId, panicked,
          trade_store, added, runs, matching>>

\* the state outside the book: the TradeStore, the trades handed to it, and
\* the number of program runs
storeVars == <<trade_store, added, runs>>

\* ------------------------------------------------------------- containers
None == <<>>

Some(v) == <<v>>

Min(S) == CHOOSE x \in S : \A y \in S : x <= y

Max(S) == CHOOSE x \in S : \A y \in S : x >= y

\* the first argument, whatever the second
MinOf_first(a, b) == a

\* one unit, whatever the two quantities
MinOf_unit(a, b) == 1

\* std::cmp::min
MinOf(a, b) == IF a <= b THEN a ELSE b

MaxOf(a, b) == IF a >= b THEN a ELSE b

\* map.remove(&k)
MapRemove(f, k) == [x \in DOMAIN f \ {k} |-> f[x]]

\* map.insert(k, v)
MapInsert(f, k, v) == [x \in DOMAIN f \cup {k} |-> IF x = k THEN v ELSE f[x]]

EmptyMap == [x \in {} |-> 0]

\* a removal that takes the head of the vector, whatever the position
VecRemove_head(s, pos) == Tail(s)

\* vec.remove(pos)
VecRemove(s, pos) == SubSeq(s, 1, pos - 1) \o SubSeq(s, pos + 1, Len(s))

RECURSIVE SumSeq(_)
SumSeq(s) == IF s = <<>> THEN 0 ELSE Head(s) + SumSeq(Tail(s))

\* ------------------------------------------------------------------ Order
\* the symbol the book is created for, and another one
BookSymbol == "BTC-USD"
OtherSymbol == "ETH-USD"

\* the account that submits where the submitter is of no interest
FirstUser == 1

\* Order::new_limit, and the struct literal for the types without constructor,
\* for an order of the book's symbol submitted by the first account
NewOrder(id, price, quantity, side, order_type, timestamp) ==
    [id |-> id, price |-> price, quantity |-> quantity,
     remaining_quantity |-> quantity, side |-> side, order_type |-> order_type,
     timestamp |-> timestamp, status |-> "New", user_id |-> FirstUser,
     symbol |-> BookSymbol]

\* Order::new_market
new_market(id, quantity, side, timestamp) ==
    NewOrder(id, IF side = "Buy" THEN U64Max ELSE 0, quantity, side, <<"Market">>, timestamp)

\* is_filled that never answers true
is_filled_never(o) == FALSE

\* Order::is_filled
is_filled(o) == o.remaining_quantity = 0

\* the assertion of Order::fill_partial
fill_partial_ok(o, filled_quantity) == filled_quantity <= o.remaining_quantity

\* fill_partial that marks every order it touches Filled
fill_partial_marked_filled(o, filled_quantity) ==
    [o EXCEPT !.remaining_quantity = @ - filled_quantity, !.status = "Filled"]

fill_partial(o, filled_quantity) ==
    LET r == o.remaining_quantity - filled_quantity
    IN [o EXCEPT !.remaining_quantity = r,
                 !.status = IF r > 0 THEN "PartiallyFilled" ELSE "Filled"]

\* fill_complete that marks the status and leaves the remaining quantity
fill_complete_status_only(o) == [o EXCEPT !.status = "Filled"]

fill_complete(o) == [o EXCEPT !.remaining_quantity = 0, !.status = "Filled"]

cancel(o) == IF o.status # "Filled" THEN [o EXCEPT !.status = "Canceled"] ELSE o

\* u64::cmp
CmpU64(x, y) == IF x < y THEN "Less" ELSE IF x > y THEN "Greater" ELSE "Equal"

\* <Order as Ord>::cmp
Order_cmp(self, other) ==
    IF self.side = "Buy" /\ other.side = "Buy"
    THEN IF CmpU64(other.price, self.price) = "Equal"
         THEN CmpU64(self.timestamp, other.timestamp)
         ELSE CmpU64(other.price, self.price)
    ELSE IF self.side = "Sell" /\ other.side = "Sell"
    THEN IF CmpU64(self.price, other.price) = "Equal"
         THEN CmpU64(self.timestamp, other.timestamp)
         ELSE CmpU64(self.price, other.price)
    ELSE "Equal"

\* ------------------------------------------------------------------ Trade
\* the Trade literal priced at the taker's price
MakeTrade_taker_price(id, price, quantity, order, opposite_order) ==
    [id |-> id, price |-> order.price, quantity |-> quantity,
     timestamp |-> MaxOf(order.timestamp, opposite_order.timestamp),
     buy_order_id |-> IF order.side = "Buy" THEN order.id ELSE opposite_order.id,
     sell_order_id |-> IF order.side = "Sell" THEN order.id ELSE opposite_order.id,
     buy_user_id |-> IF order.side = "Buy" THEN order.user_id ELSE opposite_order.user_id,
     sell_user_id |-> IF order.side = "Sell" THEN order.user_id ELSE opposite_order.user_id]

\* the Trade literal built by the matching loops; the taker is `order`
MakeTrade(id, price, quantity, order, opposite_order) ==
    [id |-> id, price |-> price, quantity |-> quantity,
     timestamp |-> MaxOf(order.timestamp, opposite_order.timestamp),
     buy_order_id |-> IF order.side = "Buy" THEN order.id ELSE opposite_order.id,
     sell_order_id |-> IF order.side = "Sell" THEN order.id ELSE opposite_order.id,
     buy_user_id |-> IF order.side = "Buy" THEN order.user_id ELSE opposite_order.user_id,
     sell_user_id |-> IF order.side = "Sell" THEN order.user_id ELSE opposite_order.user_id]

\* ---------------------------------------------------------------- Matcher
\* A matching run works on m = [order, bids, asks, orders_by_id,
\* last_trade_id, trades, panic]: the taker's local copy, the three
\* containers borrowed from the book, the matcher's counter, the trades
\* vector, and whether an assertion has failed (the call then unwinds).
OppositeLevels(m) == IF m.order.side = "Buy" THEN m.asks ELSE m.bids

\* the updated levels written to the taker's own ladder
WithOppositeLevels_own_side(m, levels) ==
    IF m.order.side = "Buy" THEN [m EXCEPT !.bids = levels] ELSE [m EXCEPT !.asks = levels]

WithOppositeLevels(m, levels) ==
    IF m.order.side = "Buy" THEN [m EXCEPT !.asks = levels] ELSE [m EXCEPT !.bids = levels]

\* next_trade_id without the increment
next_trade_id_stuck(counter) == counter

\* Matcher::next_trade_id: increment, then return
next_trade_id(counter) == counter + 1

\* One pass of the loop body after the level has been found non-empty:
\* trade against level_orders[0] at best_price.
MatchHead(m, best_price) ==
    LET levels == OppositeLevels(m)
        level_orders == levels[best_price]
        opposite_order == level_orders[1]
        order == m.order
        match_qty == MinOf(order.remaining_quantity, opposite_order.remaining_quantity)
        tid == next_trade_id(m.last_trade_id)
        trade == MakeTrade(tid, best_price, match_qty, order, opposite_order)
        stored_ok == (order.id \in DOMAIN m.orders_by_id)
                        => fill_partial_ok(m.orders_by_id[order.id], match_qty)
        idx1 == IF order.id \in DOMAIN m.orders_by_id
                THEN [m.orders_by_id EXCEPT ![order.id] = fill_partial(@, match_qty)]
                ELSE m.orders_by_id
        opp2 == fill_partial(opposite_order, match_qty)
        idx2 == IF is_filled(opp2) /\ opp2.id \in DOMAIN idx1
                THEN [idx1 EXCEPT ![opp2.id] = fill_complete(@)]
                ELSE idx1
        level2 == IF is_filled(opp2) THEN Tail(level_orders)
                  ELSE [level_orders EXCEPT ![1] = opp2]
    IN IF ~fill_partial_ok(order, match_qty) \/ ~stored_ok
          \/ ~fill_partial_ok(opposite_order, match_qty)
       THEN [m EXCEPT !.panic = TRUE, !.last_trade_id = tid]
       ELSE WithOppositeLevels(
                [m EXCEPT !.order = fill_partial(order, match_qty),
                          !.orders_by_id = idx2,
                          !.last_trade_id = tid,
                          !.trades = Append(@, trade)],
                MapInsert(levels, best_price, level2))

\* the first key for either side (next() where next_back() is due)
BestOppositePrice_first_key(side, levels) == Min(DOMAIN levels)

\* the best key of the opposite ladder: keys().next() for a Buy taker,
\* keys().next_back() for a Sell taker
BestOppositePrice(side, levels) ==
    IF side = "Buy" THEN Min(DOMAIN levels) ELSE Max(DOMAIN levels)

RECURSIVE Matcher_match_market_order(_)
Matcher_match_market_order(m) ==
    LET levels == OppositeLevels(m)
    IN IF m.panic \/ ~(m.order.remaining_quantity > 0 /\ DOMAIN levels # {})
       THEN m
       ELSE LET best_price == BestOppositePrice(m.order.side, levels)
            IN IF levels[best_price] = <<>>
               THEN Matcher_match_market_order(
                        WithOppositeLevels(m, MapRemove(levels, best_price)))
               ELSE Matcher_match_market_order(MatchHead(m, best_price))

\* the price test left out
Favorable_always(order, price) == TRUE

\* the price test of the limit loop: the best opposite key is favorable
Favorable(order, price) ==
    IF order.side = "Buy" THEN price <= order.price ELSE price >= order.price

RECURSIVE Matcher_match_limit_order(_)
Matcher_match_limit_order(m) ==
    LET levels == OppositeLevels(m)
    IN IF m.panic \/ ~(m.order.remaining_quantity > 0 /\ DOMAIN levels # {})
       THEN m
       ELSE LET best_opposite_price == BestOppositePrice(m.order.side, levels)
            IN IF ~Favorable(m.order, best_opposite_price)
               THEN m
               ELSE IF levels[best_opposite_price] = <<>>
               THEN Matcher_match_limit_order(
                        WithOppositeLevels(m, MapRemove(levels, best_opposite_price)))
               ELSE Matcher_match_limit_order(MatchHead(m, best_opposite_price))

\* The keys of the opposite ladder in walk order (ascending asks for a Buy,
\* descending bids for a Sell).
RECURSIVE WalkKeys(_, _)
WalkKeys(keys, side) ==
    IF keys = {} THEN <<>>
    ELSE LET k == IF side = "Buy" THEN Min(keys) ELSE Max(keys)
         IN <<k>> \o WalkKeys(keys \ {k}, side)

\* the inner loop without the cap of a fill at the quantity still wanted
RECURSIVE SimulateLevel_uncapped(_, _)
SimulateLevel_uncapped(sim, level_orders) ==
    IF sim.done \/ level_orders = <<>> THEN sim
    ELSE LET match_qty == Head(level_orders).remaining_quantity
             r == IF sim.remaining_qty > match_qty THEN sim.remaining_qty - match_qty ELSE 0
         IN SimulateLevel_uncapped([remaining_qty |-> r,
                                    quantities |-> Append(sim.quantities, match_qty),
                                    done |-> (r = 0)],
                                   Tail(level_orders))

\* the inner loop of simulate_order_match over one level: sim =
\* [remaining_qty, quantities, done]; quantities are those of the simulated trades
RECURSIVE SimulateLevel(_, _)
SimulateLevel(sim, level_orders) ==
    IF sim.done \/ level_orders = <<>> THEN sim
    ELSE LET match_qty == MinOf(sim.remaining_qty, Head(level_orders).remaining_quantity)
             r == sim.remaining_qty - match_qty
         IN SimulateLevel([remaining_qty |-> r,
                           quantities |-> Append(sim.quantities, match_qty),
                           done |-> (r = 0)],
                          Tail(level_orders))

RECURSIVE SimulateWalk(_, _, _, _)
SimulateWalk(sim, order, levels, keys) ==
    IF sim.done \/ keys = <<>> THEN sim
    ELSE IF ~Favorable(order, Head(keys)) THEN sim
    ELSE SimulateWalk(SimulateLevel(sim, levels[Head(keys)]), order, levels, Tail(keys))

\* the simulation with the order's limit moved past every price of the ladder
simulate_order_match_no_limit(order, b, a) ==
    LET levels == IF order.side = "Buy" THEN a ELSE b
        unlimited == [order EXCEPT !.price = IF order.side = "Buy" THEN U64Max ELSE 0]
    IN SimulateWalk([remaining_qty |-> order.remaining_quantity, quantities |-> <<>>,
                     done |-> FALSE],
                    unlimited, levels, WalkKeys(DOMAIN levels, order.side)).quantities

\* Matcher::simulate_order_match, reduced to the quantities of the simulated
\* trades (process_order reads nothing else of them); takes &self: no id is drawn
simulate_order_match(order, b, a) ==
    LET levels == IF order.side = "Buy" THEN a ELSE b
    IN SimulateWalk([remaining_qty |-> order.remaining_quantity, quantities |-> <<>>,
                     done |-> FALSE],
                    order, levels, WalkKeys(DOMAIN levels, order.side)).quantities

\* -------------------------------------------------------------- OrderBook
\* An operation of the book works on b = [bids, asks, orders_by_id,
\* last_trade_id, trades, panic].
best_bid(b) == IF DOMAIN b = {} THEN None ELSE Some(Max(DOMAIN b))

best_ask(a) == IF DOMAIN a = {} THEN None ELSE Some(Min(DOMAIN a))

\* insertion of x into a sequence sorted by timestamp, after its equals
RECURSIVE InsertByTimestamp(_, _)
InsertByTimestamp(sorted, x) ==
    IF sorted = <<>> THEN <<x>>
    ELSE IF Head(sorted).timestamp <= x.timestamp
         THEN <<Head(sorted)>> \o InsertByTimestamp(Tail(sorted), x)
         ELSE <<x>> \o sorted

\* add_to_book without the sort: arrival order
sort_by_timestamp_skipped(orders) == orders

\* orders.sort_by_key(|o| o.timestamp): a stable sort
RECURSIVE sort_by_timestamp(_)
sort_by_timestamp(orders) ==
    IF orders = <<>> THEN <<>>
    ELSE InsertByTimestamp(sort_by_timestamp(SubSeq(orders, 1, Len(orders) - 1)),
                           orders[Len(orders)])

\* add_to_book that puts an order of the first account at the head of its level
add_to_book_first_user_ahead(b, order) ==
    LET level_map == IF order.side = "Buy" THEN b.bids ELSE b.asks
        orders == IF order.price \in DOMAIN level_map THEN level_map[order.price] ELSE <<>>
        level_map2 == MapInsert(level_map, order.price,
                                IF order.user_id = FirstUser THEN <<order>> \o orders
                                ELSE sort_by_timestamp(Append(orders, order)))
    IN IF order.side = "Buy" THEN [b EXCEPT !.bids = level_map2]
       ELSE [b EXCEPT !.asks = level_map2]

\* OrderBook::add_to_book
add_to_book(b, order) ==
    LET level_map == IF order.side = "Buy" THEN b.bids ELSE b.asks
        orders == IF order.price \in DOMAIN level_map THEN level_map[order.price] ELSE <<>>
        level_map2 == MapInsert(level_map, order.price, sort_by_timestamp(Append(orders, order)))
    IN IF order.side = "Buy" THEN [b EXCEPT !.bids = level_map2]
       ELSE [b EXCEPT !.asks = level_map2]

\* orders.iter().position(|o| o.id == order_id); 0 when there is none
Position(orders, order_id) ==
    IF \E i \in 1..Len(orders) : orders[i].id = order_id
    THEN Min({i \in 1..Len(orders) : orders[i].id = order_id})
    ELSE 0

\* remove_order that takes the id out of the index and leaves the ladder
remove_order_index_only(b, order_id) ==
    IF order_id \notin DOMAIN b.orders_by_id THEN b
    ELSE [b EXCEPT !.orders_by_id = MapRemove(@, order_id)]

\* OrderBook::remove_order, the state it leaves (no caller reads its result)
remove_order(b, order_id) ==
    IF order_id \notin DOMAIN b.orders_by_id THEN b
    ELSE LET order == b.orders_by_id[order_id]
             b1 == [b EXCEPT !.orders_by_id = MapRemove(@, order_id)]
             level_map == IF order.side = "Buy" THEN b.bids ELSE b.asks
         IN IF order.price \notin DOMAIN level_map THEN b1
            ELSE LET orders == level_map[order.price]
                     pos == Position(orders, order_id)
                     orders2 == VecRemove(orders, pos)
                     level_map2 == IF orders2 = <<>> THEN MapRemove(level_map, order.price)
                                   ELSE MapInsert(level_map, order.price, orders2)
                 IN IF pos = 0 THEN b1
                    ELSE IF order.side = "Buy" THEN [b1 EXCEPT !.bids = level_map2]
                    ELSE [b1 EXCEPT !.asks = level_map2]

\* the bool remove_order returns: the id was in the index and in the level
\* at its record's side and price
remove_order_found(b, order_id) ==
    /\ order_id \in DOMAIN b.orders_by_id
    /\ LET order == b.orders_by_id[order_id]
           level_map == IF order.side = "Buy" THEN b.bids ELSE b.asks
       IN /\ order.price \in DOMAIN level_map
          /\ Position(level_map[order.price], order_id) # 0

\* the matcher's run on the book's containers with `order` as the taker
RunMatcher(b, order) ==
    [order |-> order, bids |-> b.bids, asks |-> b.asks, orders_by_id |-> b.orders_by_id,
     last_trade_id |-> b.last_trade_id, trades |-> <<>>, panic |-> b.panic]

AfterMatcher(m) ==
    [bids |-> m.bids, asks |-> m.asks, orders_by_id |-> m.orders_by_id,
     last_trade_id |-> m.last_trade_id, trades |-> m.trades, panic |-> m.panic]

\* match_limit_order that rests the order as it was submitted, not the
\* record the matcher updated
OrderBook_match_limit_order_stale(b, order) ==
    LET b1 == AfterMatcher(Matcher_match_limit_order(RunMatcher(b, order)))
    IN IF b1.panic THEN b1
       ELSE IF order.id \in DOMAIN b1.orders_by_id
               /\ b1.orders_by_id[order.id].remaining_quantity > 0
       THEN add_to_book(b1, order)
       ELSE b1

\* OrderBook::match_limit_order: the matcher, then the residual read back
\* from orders_by_id is put in the book
OrderBook_match_limit_order(b, order) ==
    LET b1 == AfterMatcher(Matcher_match_limit_order(RunMatcher(b, order)))
    IN IF b1.panic THEN b1
       ELSE IF order.id \in DOMAIN b1.orders_by_id
               /\ b1.orders_by_id[order.id].remaining_quantity > 0
       THEN add_to_book(b1, b1.orders_by_id[order.id])
       ELSE b1

\* the trigger test of the Stop and StopLimit arms
trigger_condition(b, order_side, stop_price) ==
    IF order_side = "Buy"
    THEN best_ask(b.asks) # None /\ best_ask(b.asks)[1] <= stop_price
    ELSE best_bid(b.bids) # None /\ best_bid(b.bids)[1] >= stop_price

\* the dispatch of process_order on order.order_type, after the order has
\* been put in orders_by_id
Dispatch(b, order) ==
    LET kind == order.order_type[1]
    IN CASE kind = "Market" ->
              AfterMatcher(Matcher_match_market_order(RunMatcher(b, order)))
         [] kind = "Limit" -> OrderBook_match_limit_order(b, order)
         [] kind = "IOC" ->
              LET b1 == OrderBook_match_limit_order(b, order)
              IN IF b1.panic THEN b1
                 ELSE IF order.id \in DOMAIN b1.orders_by_id
                         /\ b1.orders_by_id[order.id].remaining_quantity > 0
                 THEN remove_order([b1 EXCEPT !.orders_by_id[order.id] = cancel(@)], order.id)
                 ELSE b1
         [] kind = "FOK" ->
              LET total_matched == SumSeq(simulate_order_match(order, b.bids, b.asks))
              IN IF total_matched = order.quantity
                 THEN OrderBook_match_limit_order(b, order)
                 ELSE remove_order(
                          IF order.id \in DOMAIN b.orders_by_id
                          THEN [b EXCEPT !.orders_by_id[order.id] = cancel(@)]
                          ELSE b,
                          order.id)
         [] kind = "Stop" ->
              IF trigger_condition(b, order.side, order.order_type[2])
              THEN AfterMatcher(Matcher_match_market_order(
                       RunMatcher(b, [order EXCEPT !.order_type = <<"Market">>])))
              ELSE b
         [] kind = "StopLimit" ->
              IF trigger_condition(b, order.side, order.order_type[2])
              THEN OrderBook_match_limit_order(
                       b, [order EXCEPT !.order_type = <<"Limit">>,
                                        !.price = order.order_type[3]])
              ELSE b

RECURSIVE CountOrders(_, _)
CountOrders(level_map, keys) ==
    IF keys = {} THEN 0
    ELSE LET k == CHOOSE x \in keys : TRUE
         IN Len(level_map[k]) + CountOrders(level_map, keys \ {k})

\* OrderBook::update_stats
update_stats(st, b) ==
    [st EXCEPT !.best_bid = best_bid(b.bids),
               !.best_ask = best_ask(b.asks),
               !.bid_order_count = CountOrders(b.bids, DOMAIN b.bids),
               !.ask_order_count = CountOrders(b.asks, DOMAIN b.asks)]

\* the trade statistics updated once for a call, with its first trade
update_with_trades_once(st, trades) ==
    IF trades = <<>> THEN st
    ELSE [st EXCEPT !.last_trade_price = Some(Head(trades).price),
                    !.volume = @ + Head(trades).quantity,
                    !.trade_count = @ + 1]

\* OrderBookStats::update_with_trade, for each returned trade in turn
RECURSIVE update_with_trades(_, _)
update_with_trades(st, trades) ==
    IF trades = <<>> THEN st
    ELSE update_with_trades(
             [st EXCEPT !.last_trade_price = Some(Head(trades).price),
                        !.volume = @ + Head(trades).quantity,
                        !.trade_count = @ + 1],
             Tail(trades))

\* the book as an operation finds it
Book ==
    [bids |-> bids, asks |-> asks, orders_by_id |-> orders_by_id,
     last_trade_id |-> last_trade_id, trades |-> <<>>, panic |-> FALSE]

\* OrderBook::process_order for an order of the book's symbol
ProcessOrderResult(b, order) ==
    Dispatch([b EXCEPT !.orders_by_id = MapInsert(@, order.id, order)], order)

\* OrderBook::cancel_order; ret is the returned bool
CancelOrderResult(b, order_id) ==
    IF order_id \in DOMAIN b.orders_by_id
    THEN remove_order([b EXCEPT !.orders_by_id[order_id] = cancel(@)], order_id)
    ELSE b

\* the (price, total remaining) pair of each level, for keys in this order
RECURSIVE DepthOf(_, _)
DepthOf(level_map, keys) ==
    IF keys = <<>> THEN <<>>
    ELSE <<<<Head(keys),
             SumSeq([i \in 1..Len(level_map[Head(keys)]) |->
                        level_map[Head(keys)][i].remaining_quantity])>>>>
         \o DepthOf(level_map, Tail(keys))

\* iter.take(levels)
Take(s, levels) == SubSeq(s, 1, MinOf(levels, Len(s)))

\* market_depth with both sides read from the lowest price up
market_depth_ascending(b, a, levels) ==
    <<DepthOf(b, Take(WalkKeys(DOMAIN b, "Buy"), levels)),
      DepthOf(a, Take(WalkKeys(DOMAIN a, "Buy"), levels))>>

\* OrderBook::market_depth: bids from bids.iter().rev(), asks from asks.iter()
market_depth(b, a, levels) ==
    <<DepthOf(b, Take(WalkKeys(DOMAIN b, "Sell"), levels)),
      DepthOf(a, Take(WalkKeys(DOMAIN a, "Buy"), levels))>>

\* u64 addition as a release build performs it, and whether it wrapped
AddWraps(x, y) == x > U64Max - y

WrappingAdd(x, y) == IF AddWraps(x, y) THEN x - (U64Max - y) - 1 ELSE x + y

\* u64 multiplication by a small factor, as a release build performs it
RECURSIVE WrappingMul(_, _)
WrappingMul(x, n) == IF n = 0 THEN 0 ELSE WrappingAdd(WrappingMul(x, n - 1), x)

MulWraps(x, n) == n > 0 /\ x > U64Max \div n

\* the orders of a ladder in the order the two loops of calculate_slippage
\* visit them
RECURSIVE VisitOrder(_, _)
VisitOrder(level_map, keys) ==
    IF keys = <<>> THEN <<>>
    ELSE level_map[Head(keys)] \o VisitOrder(level_map, Tail(keys))

\* the loops of calculate_slippage as a release build runs them; `wrapped`
\* records that total_cost passed u64::MAX on the way, `fault` a division by
\* a zero total_volume
RECURSIVE SlippageWalk(_, _)
SlippageWalk(w, orders) ==
    IF w.done \/ orders = <<>> THEN w
    ELSE LET order == Head(orders)
             match_qty == MinOf(w.remaining, order.remaining_quantity)
             product == WrappingMul(order.price, match_qty)
             total_cost == WrappingAdd(w.total_cost, product)
             total_volume == w.total_volume + match_qty
             remaining == w.remaining - match_qty
             wrapped == w.wrapped \/ MulWraps(order.price, match_qty)
                                  \/ AddWraps(w.total_cost, product)
         IN SlippageWalk(
                [remaining |-> remaining, total_cost |-> total_cost,
                 total_volume |-> total_volume, wrapped |-> wrapped,
                 done |-> (remaining = 0),
                 fault |-> (remaining = 0 /\ total_volume = 0),
                 ret |-> IF remaining = 0 /\ total_volume > 0
                         THEN Some(total_cost \div total_volume) ELSE None],
                Tail(orders))

\* OrderBook::calculate_slippage, the average price of its result: the set
\* of outcomes the builds produce.  An overflow of total_cost panics where
\* overflow checks are compiled in and wraps where they are not; a division
\* by zero panics in every build.
calculate_slippage(b, a, side, quantity) ==
    LET opposite_levels == IF side = "Buy" THEN a ELSE b
        w == SlippageWalk(
                 [remaining |-> quantity, total_cost |-> 0, total_volume |-> 0,
                  wrapped |-> FALSE, done |-> FALSE, fault |-> FALSE, ret |-> None],
                 VisitOrder(opposite_levels, WalkKeys(DOMAIN opposite_levels, side)))
    IN IF DOMAIN opposite_levels = {} THEN {[ret |-> None, panic |-> FALSE]}
       ELSE IF w.fault THEN {[ret |-> None, panic |-> TRUE]}
       ELSE IF w.wrapped
            THEN {[ret |-> None, panic |-> TRUE], [ret |-> w.ret, panic |-> FALSE]}
       ELSE {[ret |-> w.ret, panic |-> FALSE]}

\* -------------------------------------------------------------- Histogram
\* 63 - value.leading_zeros(): the position of the highest set bit
RECURSIVE HighestBit(_)
HighestBit(value) == IF value <= 1 THEN 0 ELSE 1 + HighestBit(value \div 2)

\* Histogram::bucket_for
bucket_for(value) == IF value = 0 THEN 0 ELSE 2 ^ HighestBit(value)

\* ----------------------------------------------------------------- inputs
Sides == {"Buy", "Sell"}

\* The orders a submitter hands to process_order under id `id`.  Limit, IOC
\* and FOK carry their limit in price, Market is built by new_market, a
\* Stop carries the market sentinel like the Market order it may become,
\* a StopLimit carries any price next to its (stop, limit) pair.  Only a
\* Limit order is given every timestamp; the other types, whose timestamp
\* reaches the book's state as data only, are stamped MaxTs.
InputOrders(id) ==
    {NewOrder(id, p, q, s, <<"Limit">>, ts) :
        p \in Prices, q \in Qtys, s \in Sides, ts \in Timestamps}
    \cup {NewOrder(id, p, q, s, <<k>>, MaxTs) :
        p \in Prices, q \in Qtys, s \in Sides, k \in {"IOC", "FOK"}}
    \cup {new_market(id, q, s, MaxTs) : q \in Qtys, s \in Sides}
    \cup {[new_market(id, q, s, MaxTs) EXCEPT !.order_type = <<"Stop", t>>] :
        q \in Qtys, s \in Sides, t \in Prices}
    \cup {NewOrder(id, p, q, s, <<"StopLimit", t, l>>, MaxTs) :
        p \in Prices, q \in Qtys, s \in Sides, t \in Prices, l \in Prices}

\* ---------------------------------------------------------- state machine
\* OrderBook::new, Matcher::new, OrderBookStats::new
Init ==
    /\ bids = EmptyMap
    /\ asks = EmptyMap
    /\ orders_by_id = EmptyMap
    /\ last_trade_id = 0
    /\ stats = [best_bid |-> None, best_ask |-> None, last_trade_price |-> None,
                volume |-> 0, trade_count |-> 0, bid_order_count |-> 0,
                ask_order_count |-> 0, last_update_time |-> 0]
    /\ tradeLog = <<>>
    /\ last = [op |-> "new", arg |-> <<>>, ret |-> <<>>]
    /\ nextId = 1
    /\ panicked = FALSE
    /\ trade_store = EmptyMap
    /\ added = <<>>
    /\ runs = 1
    /\ matching = None

\* the symbol test that opens process_order, never failing
symbol_mismatch_never(order) == FALSE

\* the symbol test that opens process_order
symbol_mismatch(order) == order.symbol # BookSymbol

\* one call process_order(order)
Submit(order) ==
    LET r == ProcessOrderResult(Book, order)
    IN IF symbol_mismatch(order)
       THEN /\ UNCHANGED <<bids, asks, orders_by_id, last_trade_id, panicked, stats, tradeLog>>
            /\ last' = [op |-> "process_order", arg |-> order, ret |-> <<>>]
       ELSE /\ bids' = r.bids
            /\ asks' = r.asks
            /\ orders_by_id' = r.orders_by_id
            /\ last_trade_id' = r.last_trade_id
            /\ panicked' = r.panic
            /\ stats' = IF r.panic THEN [stats EXCEPT !.last_update_time = order.timestamp]
                        ELSE update_with_trades(
                                 update_stats([stats EXCEPT !.last_update_time = order.timestamp], r),
                                 r.trades)
            /\ tradeLog' = IF r.panic THEN tradeLog ELSE tradeLog \o r.trades
            /\ last' = [op |-> "process_order", arg |-> order, ret |-> r.trades]

\* process_order(order) with the next unused id
ProcessOrder ==
    /\ ~panicked
    /\ nextId <= MaxOrders
    /\ \E order \in InputOrders(nextId) : Submit(order)
    /\ nextId' = nextId + 1
    /\ UNCHANGED <<storeVars, matching>>

\* cancel_order(order_id) of an id that has been submitted; `removed` is
\* what remove_order returned to it
CancelOrder ==
    /\ ~panicked
    /\ \E order_id \in 1..(nextId - 1) :
         LET r == CancelOrderResult(Book, order_id)
             found == order_id \in DOMAIN orders_by_id
         IN /\ bids' = r.bids
            /\ asks' = r.asks
            /\ orders_by_id' = r.orders_by_id
            /\ stats' = IF found THEN update_stats(stats, r) ELSE stats
            /\ last' = [op |-> "cancel_order", arg |-> order_id, ret |-> found,
                        removed |-> remove_order_found(Book, order_id)]
    /\ UNCHANGED <<last_trade_id, tradeLog, nextId, panicked>>
    /\ UNCHANGED <<storeVars, matching>>

Next == ProcessOrder \/ CancelOrder

Spec == Init /\ [][Next]_vars

\* a longer run of calls over fewer kinds of order: Limit, Market and Stop
\* orders, all of one quantity and with the latest timestamp
MaxDeepOrders == 4
DeepQty == 1

InputOrdersDeep(id) ==
    {NewOrder(id, p, DeepQty, s, <<"Limit">>, MaxTs) : p \in Prices, s \in Sides}
    \cup {new_market(id, DeepQty, s, MaxTs) : s \in Sides}
    \cup {[new_market(id, DeepQty, s, MaxTs) EXCEPT !.order_type = <<"Stop", t>>] :
        s \in Sides, t \in Prices}

ProcessOrderDeep ==
    /\ ~panicked
    /\ nextId <= MaxDeepOrders
    /\ \E order \in InputOrdersDeep(nextId) : Submit(order)
    /\ nextId' = nextId + 1
    /\ UNCHANGED <<storeVars, matching>>

NextDeep == ProcessOrderDeep \/ CancelOrder

SpecDeep == Init /\ [][NextDeep]_vars

\* a short run of calls that process_order is meant to refuse next to those
\* it accepts: orders of another symbol, of quantity zero, and under an id
\* that has been used before
MaxEdgeCalls == 2

Symbols == {BookSymbol, OtherSymbol}

QtysFromZero == 0..MaxQty

InputOrdersEdge(id) ==
    {NewOrder(id, p, q, s, <<k>>, MaxTs) :
        p \in Prices, q \in QtysFromZero, s \in Sides, k \in {"Limit", "IOC", "FOK"}}
    \cup {new_market(id, q, s, MaxTs) : q \in QtysFromZero, s \in Sides}
    \cup {[new_market(id, q, s, MaxTs) EXCEPT !.order_type = <<"Stop", t>>] :
        q \in QtysFromZero, s \in Sides, t \in Prices}
    \cup {NewOrder(id, l, q, s, <<"StopLimit", t, l>>, MaxTs) :
        q \in QtysFromZero, s \in Sides, t \in Prices, l \in Prices}

\* process_order(order) under the next unused id or one used before; nextId
\* counts the calls
ProcessOrderEdge ==
    /\ ~panicked
    /\ nextId <= MaxEdgeCalls
    /\ \E id \in 1..nextId, symbol \in Symbols :
         \E order \in InputOrdersEdge(id) : Submit([order EXCEPT !.symbol = symbol])
    /\ nextId' = nextId + 1
    /\ UNCHANGED <<storeVars, matching>>

NextEdge == ProcessOrderEdge \/ CancelOrder

SpecEdge == Init /\ [][NextEdge]_vars

\* the read-only calls next to the calls that change the book, over Limit
\* and Market orders with the latest timestamp
MaxQueryOrders == 3
MaxLevels == 3
MaxSlippageQty == 3

InputOrdersQuery(id, prices) ==
    {NewOrder(id, p, q, s, <<"Limit">>, MaxTs) : p \in prices, q \in Qtys, s \in Sides}
    \cup {new_market(id, q, s, MaxTs) : q \in Qtys, s \in Sides}

ProcessOrderQuery ==
    /\ ~panicked
    /\ nextId <= MaxQueryOrders
    /\ \E order \in InputOrdersQuery(nextId, Prices) : Submit(order)
    /\ nextId' = nextId + 1
    /\ UNCHANGED <<storeVars, matching>>

\* one call market_depth(levels)
MarketDepth ==
    /\ ~panicked
    /\ \E levels \in 0..MaxLevels :
         last' = [op |-> "market_depth", arg |-> levels,
                  ret |-> market_depth(bids, asks, levels)]
    /\ UNCHANGED <<bids, asks, orders_by_id, last_trade_id, stats, tradeLog, nextId,
                   panicked>>
    /\ UNCHANGED <<storeVars, matching>>

\* one call calculate_slippage(side, quantity)
CalculateSlippage ==
    /\ ~panicked
    /\ \E side \in Sides, quantity \in 0..MaxSlippageQty :
         \E outcome \in calculate_slippage(bids, asks, side, quantity) :
            /\ last' = [op |-> "calculate_slippage", arg |-> <<side, quantity>>,
                        ret |-> outcome.ret]
            /\ panicked' = outcome.panic
    /\ UNCHANGED <<bids, asks, orders_by_id, last_trade_id, stats, tradeLog, nextId>>
    /\ UNCHANGED <<storeVars, matching>>

NextQuery == ProcessOrderQuery \/ CancelOrder \/ MarketDepth \/ CalculateSlippage

SpecQuery == Init /\ [][NextQuery]_vars

\* the same calls on a book whose orders may carry the largest price
MaxHugeOrders == 2

ProcessOrderHuge ==
    /\ ~panicked
    /\ nextId <= MaxHugeOrders
    /\ \E order \in InputOrdersQuery(nextId, Prices \cup {U64Max}) : Submit(order)
    /\ nextId' = nextId + 1
    /\ UNCHANGED <<storeVars, matching>>

NextHuge == ProcessOrderHuge \/ CancelOrder \/ MarketDepth \/ CalculateSlippage

SpecHuge == Init /\ [][NextHuge]_vars

\* Limit and Market orders submitted by more than one account
MaxUsers == 2
MaxUserOrders == 3

Users == 1..MaxUsers

ProcessOrderUsers ==
    /\ ~panicked
    /\ nextId <= MaxUserOrders
    /\ \E order \in InputOrdersQuery(nextId, Prices), user_id \in Users :
         Submit([order EXCEPT !.user_id = user_id])
    /\ nextId' = nextId + 1
    /\ UNCHANGED <<storeVars, matching>>

NextUsers == ProcessOrderUsers \/ CancelOrder

SpecUsers == Init /\ [][NextUsers]_vars

\* comparisons of two Limit orders under Order's ordering; no book is involved
InputOrdersCmp(id) ==
    {NewOrder(id, p, q, s, <<"Limit">>, ts) :
        p \in Prices, q \in Qtys, s \in Sides, ts \in Timestamps}

\* one evaluation of self.cmp(other)
Compare ==
    /\ \E self \in InputOrdersCmp(1), other \in InputOrdersCmp(MaxOrders) :
         last' = [op |-> "cmp", arg |-> <<self, other>>, ret |-> Order_cmp(self, other)]
    /\ UNCHANGED <<bids, asks, orders_by_id, last_trade_id, stats, tradeLog, nextId,
                   panicked>>
    /\ UNCHANGED <<storeVars, matching>>

SpecCmp == Init /\ [][Compare]_vars

\* evaluations of Histogram::bucket_for; no book is involved
MaxValue == 1100
MaxBit == 11

BucketFor ==
    /\ \E value \in 0..MaxValue :
         last' = [op |-> "bucket_for", arg |-> value, ret |-> bucket_for(value)]
    /\ UNCHANGED <<bids, asks, orders_by_id, last_trade_id, stats, tradeLog, nextId,
                   panicked>>
    /\ UNCHANGED <<storeVars, matching>>

SpecBucket == Init /\ [][BucketFor]_vars

\* ------------------------------------------------------------- TradeStore
\* the loop `for trade in trades { self.trades.insert(trade.id, trade); }`
RECURSIVE InsertAll(_, _)
InsertAll(trades, ts) ==
    IF ts = <<>> THEN trades
    ELSE InsertAll(MapInsert(trades, Head(ts).id, Head(ts)), Tail(ts))

\* TradeStore::add_trades: the map after the call
add_trades(trades, ts) == InsertAll(trades, ts)

\* TradeStore::get_all_trades, as the set of the trades returned
get_all_trades(trades) == {trades[id] : id \in DOMAIN trades}

\* TradeStore::count
count(trades) == Cardinality(DOMAIN trades)

\* TradeStore::flush: the trades written to the file, in some order
flush(trades) ==
    {ts \in [1..count(trades) -> get_all_trades(trades)] :
        \A id \in DOMAIN trades : \E i \in DOMAIN ts : ts[i] = trades[id]}

\* TradeStore::load_from_file into an empty map, as with_file calls it
load_from_file(file) == InsertAll(EmptyMap, file)

\* a run of the example program: one book and one store with auto_flush,
\* every vector returned by process_order handed to add_trades
MaxRuns == 2
MaxRunOrders == 2

\* process_order(order) followed by trade_store.add_trades(trades)
ProcessOrderStore ==
    /\ ~panicked
    /\ nextId <= MaxRunOrders
    /\ \E order \in InputOrdersDeep(nextId) : Submit(order)
    /\ nextId' = nextId + 1
    /\ trade_store' = add_trades(trade_store, last'.ret)
    /\ added' = added \o last'.ret
    /\ UNCHANGED <<runs, matching>>

\* the program is started again: OrderBook::new and TradeStore::with_file
\* on the file the run before flushed after its last add_trades
NewRun ==
    /\ ~panicked
    /\ runs < MaxRuns
    /\ bids' = EmptyMap
    /\ asks' = EmptyMap
    /\ orders_by_id' = EmptyMap
    /\ last_trade_id' = 0
    /\ stats' = [best_bid |-> None, best_ask |-> None, last_trade_price |-> None,
                 volume |-> 0, trade_count |-> 0, bid_order_count |-> 0,
                 ask_order_count |-> 0, last_update_time |-> 0]
    /\ tradeLog' = <<>>
    /\ nextId' = 1
    /\ \E file \in flush(trade_store) :
         /\ trade_store' = load_from_file(file)
         /\ last' = [op |-> "with_file", arg |-> file, ret |-> <<>>]
    /\ runs' = runs + 1
    /\ UNCHANGED <<added, panicked, matching>>

NextStore == ProcessOrderStore \/ NewRun

SpecStore == Init /\ [][NextStore]_vars

\* ------------------------------------------------- the matching loops, stepwise
\* process_order of a Limit or Market order taken one loop iteration at a
\* time.  The matcher works on the book's own containers, so bids, asks,
\* orders_by_id and last_trade_id change with every iteration; matching
\* holds what is local to the call in flight: the order as submitted, the
\* matcher's copy of it, the trades vector, and the number of empty levels
\* the loop has removed so far.
MaxLoopOrders == 3

\* the matching run the call in flight has reached
Running ==
    [order |-> matching[1].order, bids |-> bids, asks |-> asks,
     orders_by_id |-> orders_by_id, last_trade_id |-> last_trade_id,
     trades |-> matching[1].trades, panic |-> FALSE]

\* the loop goes round again: the while condition holds and, in the limit
\* loop, the best opposite price does not break out of it
LoopContinues(m) ==
    /\ m.order.remaining_quantity > 0
    /\ DOMAIN OppositeLevels(m) # {}
    /\ m.order.order_type[1] = "Limit" =>
          Favorable(m.order, BestOppositePrice(m.order.side, OppositeLevels(m)))

\* one iteration of the loop body
LoopBody(m) ==
    LET levels == OppositeLevels(m)
        best_price == BestOppositePrice(m.order.side, levels)
    IN IF levels[best_price] = <<>>
       THEN WithOppositeLevels(m, MapRemove(levels, best_price))
       ELSE MatchHead(m, best_price)

\* process_order up to the call of the matcher
BeginProcessOrder ==
    /\ ~panicked
    /\ matching = None
    /\ nextId <= MaxLoopOrders
    /\ \E order \in InputOrdersQuery(nextId, Prices) :
         /\ orders_by_id' = MapInsert(orders_by_id, order.id, order)
         /\ stats' = [stats EXCEPT !.last_update_time = order.timestamp]
         /\ matching' = Some([submitted |-> order, order |-> order, trades |-> <<>>,
                                 removed |-> 0])
    /\ nextId' = nextId + 1
    /\ UNCHANGED <<bids, asks, last_trade_id, tradeLog, last, panicked, storeVars>>

\* one iteration of match_market_order's or match_limit_order's loop
LoopIterate ==
    /\ ~panicked
    /\ matching # None
    /\ LoopContinues(Running)
    /\ LET m == LoopBody(Running)
       IN /\ bids' = m.bids
          /\ asks' = m.asks
          /\ orders_by_id' = m.orders_by_id
          /\ last_trade_id' = m.last_trade_id
          /\ panicked' = m.panic
          /\ matching' = Some([matching[1] EXCEPT
                                   !.order = m.order,
                                   !.trades = m.trades,
                                   !.removed = IF m.trades = matching[1].trades /\ ~m.panic
                                               THEN @ + 1 ELSE @])
    /\ UNCHANGED <<stats, tradeLog, last, nextId, storeVars>>

\* the loop has ended: the residual of a Limit order is put in the book,
\* the statistics are updated and the trades returned
EndProcessOrder ==
    /\ ~panicked
    /\ matching # None
    /\ ~LoopContinues(Running)
    /\ LET order == matching[1].submitted
           trades == matching[1].trades
           b == IF order.order_type[1] = "Limit"
                   /\ orders_by_id[order.id].remaining_quantity > 0
                THEN add_to_book(Book, orders_by_id[order.id])
                ELSE Book
       IN /\ bids' = b.bids
          /\ asks' = b.asks
          /\ stats' = update_with_trades(update_stats(stats, b), trades)
          /\ tradeLog' = tradeLog \o trades
          /\ last' = [op |-> "process_order", arg |-> order, ret |-> trades]
    /\ matching' = None
    /\ UNCHANGED <<orders_by_id, last_trade_id, nextId, panicked, storeVars>>

\* cancel_order between two calls of process_order
CancelOrderBetween == matching = None /\ CancelOrder

NextLoop == BeginProcessOrder \/ LoopIterate \/ EndProcessOrder \/ CancelOrderBetween

\* a call that has started runs on: the loops are straight-line sequential code
SpecLoop ==
    Init /\ [][NextLoop]_vars /\ WF_vars(LoopIterate) /\ WF_vars(EndProcessOrder)

\* ------------------------------------------------------------ observation
\* the orders stored in a ladder
Resting(level_map) ==
    UNION {{level_map[k][i] : i \in 1..Len(level_map[k])} : k \in DOMAIN level_map}

RestingIds == {o.id : o \in Resting(bids) \cup Resting(asks)}

\* the ladder entry of a resting id
Entry(id) == CHOOSE o \in Resting(bids) \cup Resting(asks) : o.id = id

Names(t, id) == t.buy_order_id = id \/ t.sell_order_id = id

\* total quantity of the trades of a sequence that name id
RECURSIVE TradedQty(_, _)
TradedQty(trades, id) ==
    IF trades = <<>> THEN 0
    ELSE (IF Names(Head(trades), id) THEN Head(trades).quantity ELSE 0)
         + TradedQty(Tail(trades), id)

\* the trades the step's call returns
NewTrades == SubSeq(tradeLog', Len(tradeLog) + 1, Len(tradeLog'))

\* the ladder a taker of this side walks, before the step
OppositeOf(side) == IF side = "Buy" THEN asks ELSE bids

\* the resting order a trade names, given the taker's side
MakerId(t, taker_side) == IF taker_side = "Buy" THEN t.sell_order_id ELSE t.buy_order_id

\* the price a limit-style taker is matched with
TakerLimit(order) ==
    IF order.order_type[1] = "StopLimit" THEN order.order_type[3] ELSE order.price

LimitStyle(order) == order.order_type[1] \in {"Limit", "IOC", "FOK", "StopLimit"}

Called(op) == last.op = op

\* ----------------------------------------------------------------- claims
\* C1: at rest the book is never crossed: whenever both ladders are
\* non-empty, best_bid() < best_ask().
C1_Uncrossed ==
    (best_bid(bids) # None /\ best_ask(asks) # None) => best_bid(bids)[1] < best_ask(asks)[1]

\* C8: an id has an index record with status New or PartiallyFilled if and
\* only if it appears in exactly one level of exactly one ladder, on the
\* side equal to its side, at the level keyed by its price.
\* the places <<side, level key, position>> of the two ladders
Places ==
    {<<"Buy", k, i>> : k \in DOMAIN bids, i \in 1..MaxOrders} \cup
    {<<"Sell", k, i>> : k \in DOMAIN asks, i \in 1..MaxOrders}

\* the order stored at place occ has this id
OccursAt(id, occ) ==
    LET level == IF occ[1] = "Buy" THEN bids[occ[2]] ELSE asks[occ[2]]
    IN occ[3] <= Len(level) /\ level[occ[3]].id = id

C8_IndexLadderConsistency ==
    \A id \in Ids :
        (id \in DOMAIN orders_by_id
            /\ orders_by_id[id].status \in {"New", "PartiallyFilled"})
        <=> (/\ Cardinality({occ \in Places : OccursAt(id, occ)}) = 1
             /\ id \in DOMAIN orders_by_id
             /\ \A occ \in Places :
                    OccursAt(id, occ) => /\ occ[1] = orders_by_id[id].side
                                         /\ occ[2] = orders_by_id[id].price)

\* C9: no ladder holds a level with no orders, and every level holds only
\* orders with remaining > 0.
C9_NoEmptyLevel ==
    /\ \A k \in DOMAIN bids : bids[k] # <<>>
    /\ \A k \in DOMAIN asks : asks[k] # <<>>
    /\ \A o \in Resting(bids) \cup Resting(asks) : o.remaining_quantity > 0

\* C10: for every resting order the index record reports the same remaining
\* quantity and status as the ladder entry.
C10_IndexInSync ==
    \A o \in Resting(bids) \cup Resting(asks) :
        /\ o.id \in DOMAIN orders_by_id
        /\ orders_by_id[o.id].remaining_quantity = o.remaining_quantity
        /\ orders_by_id[o.id].status = o.status

\* C2: conservation: for every order held by the book, its original
\* quantity equals the total quantity of the trades emitted so far that
\* name its id plus its current remaining, read from the ladder entry while
\* it rests and from the index record otherwise.
CurrentRecord(id) == IF id \in RestingIds THEN Entry(id) ELSE orders_by_id[id]

C2_Conservation ==
    \A id \in Ids :
        (id \in RestingIds \/ id \in DOMAIN orders_by_id) =>
            CurrentRecord(id).quantity
                = TradedQty(tradeLog, id) + CurrentRecord(id).remaining_quantity

\* a resting order that was partly filled as the maker (read from the
\* ladder), and a traded order that does not rest (read from the index)
C2_Witness ==
    /\ \E id \in RestingIds :
           TradedQty(tradeLog, id) > 0 /\ Entry(id).remaining_quantity > 0
    /\ \E id \in DOMAIN orders_by_id \ RestingIds : TradedQty(tradeLog, id) > 0

\* C3: price-time priority: when A and B rest on the same side at the same
\* price with A.timestamp < B.timestamp, a call emits a trade naming B only
\* after the trades of that call have filled A completely.
SamePriceEarlier(level_map) ==
    {<<level_map[k][i], level_map[k][j]>> :
        <<k, i, j>> \in {x \in (DOMAIN level_map) \X (1..MaxOrders) \X (1..MaxOrders) :
                            /\ x[2] <= Len(level_map[x[1]])
                            /\ x[3] <= Len(level_map[x[1]])
                            /\ level_map[x[1]][x[2]].timestamp
                                 < level_map[x[1]][x[3]].timestamp}}

C3_PriceTimePriority ==
    [][\A ab \in SamePriceEarlier(bids) \cup SamePriceEarlier(asks) :
          \A n \in 1..Len(NewTrades) :
              Names(NewTrades[n], ab[2].id) =>
                  TradedQty(SubSeq(NewTrades, 1, n - 1), ab[1].id)
                      = ab[1].remaining_quantity]_vars

\* one call filled A and then traded B, where A carries the earlier
\* timestamp and the later id (it was submitted after B)
C3_Witness ==
    /\ Called("process_order")
    /\ Len(last.ret) = 2
    /\ LET a == MakerId(last.ret[1], last.arg.side)
           b == MakerId(last.ret[2], last.arg.side)
       IN /\ a > b
          /\ orders_by_id[a].price = orders_by_id[b].price
          /\ orders_by_id[a].timestamp < orders_by_id[b].timestamp

\* C4: every emitted trade has the price of the resting order it names.
C4_TradeAtRestingPrice ==
    [][\A n \in 1..Len(NewTrades) :
          \E o \in Resting(OppositeOf(last'.arg.side)) :
              /\ o.id = MakerId(NewTrades[n], last'.arg.side)
              /\ o.price = NewTrades[n].price]_vars

\* a Limit taker traded at the maker's price, which is not its own
C4_Witness ==
    /\ Called("process_order")
    /\ last.arg.order_type = <<"Limit">>
    /\ last.ret # <<>>
    /\ last.ret[1].price # last.arg.price
    /\ orders_by_id[MakerId(last.ret[1], last.arg.side)].price = last.ret[1].price

\* C5: a limit-style taker (Limit, IOC, FOK, triggered StopLimit with its
\* post-trigger limit) trades only at prices within its limit, and not at
\* all when the best resting opposite price is outside it; a Market taker
\* (or a triggered Stop) with quantity trades whenever an order rests
\* opposite, at whatever price.
WithinLimit(side, limit, price) == IF side = "Buy" THEN price <= limit ELSE price >= limit

C5_LimitPriceProtection ==
    [][last'.op = "process_order" =>
         LET taker == last'.arg
             opposite == Resting(OppositeOf(taker.side))
         IN /\ LimitStyle(taker) =>
                  /\ \A n \in 1..Len(NewTrades) :
                         WithinLimit(taker.side, TakerLimit(taker), NewTrades[n].price)
                  /\ (\A o \in opposite :
                         ~WithinLimit(taker.side, TakerLimit(taker), o.price))
                       => NewTrades = <<>>
            /\ (taker.order_type = <<"Market">> /\ opposite # {}) => NewTrades # <<>>]_vars

\* a limit-style taker traded, kept a residual and left an order resting
\* opposite at a price outside its limit
C5_Witness ==
    /\ Called("process_order")
    /\ LimitStyle(last.arg)
    /\ last.ret # <<>>
    /\ last.arg.id \in RestingIds
    /\ \E o \in Resting(OppositeOf(last.arg.side)) :
           ~WithinLimit(last.arg.side, TakerLimit(last.arg), o.price)

\* C6: within one call the trade prices are non-decreasing for a Buy taker
\* and non-increasing for a Sell taker, and an order is traded only after
\* every order resting at a strictly better price has been filled
\* completely by the earlier trades of the call.
Better(taker_side, p, q) == IF taker_side = "Buy" THEN p < q ELSE p > q

C6_BestPriceFirst ==
    [][\A n \in 1..Len(NewTrades) :
          LET side == last'.arg.side
          IN /\ n > 1 => ~Better(side, NewTrades[n].price, NewTrades[n - 1].price)
             /\ \A o \in Resting(OppositeOf(side)) :
                    Better(side, o.price, NewTrades[n].price) =>
                        TradedQty(SubSeq(NewTrades, 1, n - 1), o.id)
                            = o.remaining_quantity]_vars

\* one call traded at two different prices
C6_Witness ==
    /\ Called("process_order")
    /\ Len(last.ret) = 2
    /\ last.ret[1].price # last.ret[2].price

\* C7: the trades of one book are numbered 1, 2, 3, ... in emission order,
\* and the counter equals the number of trades emitted: simulation,
\* rejection and an untriggered stop draw no id.
C7_TradeIds ==
    /\ \A i \in 1..Len(tradeLog) : tradeLog[i].id = i
    /\ last_trade_id = Len(tradeLog)

\* an FOK order was simulated and then filled, after an earlier call traded
C7_Witness ==
    /\ Called("process_order")
    /\ last.arg.order_type = <<"FOK">>
    /\ last.ret # <<>>
    /\ Len(tradeLog) > Len(last.ret)

\* C11: an order that becomes completely filled leaves the book: it is in
\* neither ladder and not in the index.
C11_FilledLeavesBook ==
    /\ \A o \in Resting(bids) \cup Resting(asks) : o.status # "Filled"
    /\ \A id \in DOMAIN orders_by_id : orders_by_id[id].status # "Filled"

\* C12: after process_order of a Limit order that matching does not fill
\* completely, the order rests on its own side at the level keyed by its
\* price with remaining = quantity - (total traded in the call) and is in
\* the index; a Limit order that matching fills completely does not rest.
OwnLadder(side) == IF side = "Buy" THEN bids ELSE asks

C12_LimitPlacement ==
    (Called("process_order") /\ last.arg.order_type = <<"Limit">>) =>
        LET order == last.arg
            traded == TradedQty(last.ret, order.id)
            own == OwnLadder(order.side)
        IN IF traded < order.quantity
           THEN /\ order.price \in DOMAIN own
                /\ \E i \in 1..Len(own[order.price]) :
                       /\ own[order.price][i].id = order.id
                       /\ own[order.price][i].remaining_quantity = order.quantity - traded
                /\ order.id \in DOMAIN orders_by_id
                /\ orders_by_id[order.id].remaining_quantity = order.quantity - traded
           ELSE order.id \notin RestingIds

\* a Limit order traded part of its quantity and rests with the rest
C12_Witness ==
    /\ Called("process_order")
    /\ last.arg.order_type = <<"Limit">>
    /\ last.ret # <<>>
    /\ last.arg.id \in RestingIds
    /\ Entry(last.arg.id).remaining_quantity < last.arg.quantity

\* C13: no ladder holds an order of type Market, IOC, FOK or Stop, and a
\* Market order against an empty opposite ladder returns no trades without
\* failing.
C13_ImmediateNeverRests ==
    /\ \A o \in Resting(bids) \cup Resting(asks) :
           o.order_type[1] \notin {"Market", "IOC", "FOK", "Stop"}
    /\ ~panicked

\* an IOC order traded part of its quantity and its residual is gone
C13_Witness ==
    /\ Called("process_order")
    /\ last.arg.order_type = <<"IOC">>
    /\ last.ret # <<>>
    /\ TradedQty(last.ret, last.arg.id) < last.arg.quantity
    /\ last.arg.id \notin RestingIds

\* C14: an IOC order emits exactly the trades a Limit order with the same
\* side, price, quantity and timestamp would emit on the same book;
\* afterwards its own-side ladder is identical to what it was before the
\* call, and an IOC that left quantity unfilled is absent from the index.
C14_IOCSemantics ==
    [][(last'.op = "process_order" /\ last'.arg.order_type = <<"IOC">>) =>
         LET order == last'.arg
             as_limit == ProcessOrderResult(Book, [order EXCEPT !.order_type = <<"Limit">>])
         IN /\ NewTrades = as_limit.trades
            /\ IF order.side = "Buy" THEN bids' = bids ELSE asks' = asks
            /\ TradedQty(NewTrades, order.id) < order.quantity
                  => order.id \notin DOMAIN orders_by_id']_vars

\* the quantity resting on the ladder a taker walks, at prices within its limit
RECURSIVE SumRemaining(_)
SumRemaining(orders) ==
    IF orders = {} THEN 0
    ELSE LET o == CHOOSE x \in orders : TRUE
         IN o.remaining_quantity + SumRemaining(orders \ {o})

AvailableWithin(level_map, side, limit) ==
    SumRemaining({o \in Resting(level_map) : WithinLimit(side, limit, o.price)})

\* C15: an FOK order whose limit the opposite side cannot fill completely
\* returns no trades and mutates nothing: both ladders, the set of ids in
\* the index and the trade-id counter are as before the call, and the FOK
\* id is not in the index.
C15_FOKKill ==
    [][(/\ last'.op = "process_order"
        /\ last'.arg.order_type = <<"FOK">>
        /\ AvailableWithin(OppositeOf(last'.arg.side), last'.arg.side, last'.arg.price)
             < last'.arg.quantity) =>
         /\ NewTrades = <<>>
         /\ bids' = bids
         /\ asks' = asks
         /\ DOMAIN orders_by_id' = DOMAIN orders_by_id
         /\ last_trade_id' = last_trade_id
         /\ last'.arg.id \notin DOMAIN orders_by_id']_vars

\* an FOK order was killed one unit short of the quantity resting within
\* its limit
C15_Witness ==
    /\ Called("process_order")
    /\ last.arg.order_type = <<"FOK">>
    /\ last.ret = <<>>
    /\ last.arg.id \notin DOMAIN orders_by_id
    /\ AvailableWithin(OppositeOf(last.arg.side), last.arg.side, last.arg.price)
         = last.arg.quantity - 1
    /\ last.arg.quantity > 1

\* C16: an FOK order whose limit the opposite side can fill is filled
\* completely: the returned quantities sum to order.quantity, which is the
\* total simulate_order_match computes on the pre-call book, and the order
\* does not rest; for every FOK order the simulated total equals the total
\* the matcher would execute on the same book.
C16_FOKFill ==
    [][(last'.op = "process_order" /\ last'.arg.order_type = <<"FOK">>) =>
         LET order == last'.arg
             simulated == SumSeq(simulate_order_match(order, bids, asks))
             executed == Matcher_match_limit_order(
                             RunMatcher([Book EXCEPT !.orders_by_id =
                                             MapInsert(@, order.id, order)], order)).trades
         IN /\ simulated = TradedQty(executed, order.id)
            /\ AvailableWithin(OppositeOf(order.side), order.side, order.price)
                  >= order.quantity
               => /\ TradedQty(NewTrades, order.id) = order.quantity
                  /\ simulated = order.quantity
                  /\ order.id \notin {o.id : o \in Resting(bids') \cup Resting(asks')}]_vars

\* an FOK order was filled by two resting orders
C16_Witness ==
    /\ Called("process_order")
    /\ last.arg.order_type = <<"FOK">>
    /\ Len(last.ret) = 2
    /\ TradedQty(last.ret, last.arg.id) = last.arg.quantity

\* the trigger of a Stop or StopLimit order, read against the orders that
\* rest on the opposite ladder before the step
TriggerMet(side, trigger) ==
    IF side = "Buy"
    THEN \E o \in Resting(asks) : o.price <= trigger
    ELSE \E o \in Resting(bids) : o.price >= trigger

\* C17: a Stop(trigger) order produces trades if and only if its trigger is
\* met against the top of book at submission (Buy: the lowest price at which
\* a sell order rests is <= trigger; Sell: the highest price at which a buy
\* order rests is >= trigger), and when triggered it emits exactly the
\* trades a Market order of the same side and quantity would emit.
C17_StopTrigger ==
    [][(last'.op = "process_order" /\ last'.arg.order_type[1] = "Stop") =>
         LET order == last'.arg
             met == TriggerMet(order.side, order.order_type[2])
             as_market == ProcessOrderResult(Book, [order EXCEPT !.order_type = <<"Market">>])
         IN /\ (NewTrades # <<>>) <=> met
            /\ met => NewTrades = as_market.trades]_vars

\* C18: a Stop or StopLimit order whose trigger is not met at submission is
\* dropped with no record: no trades, both ladders unchanged, and its id is
\* not in the index afterwards (so cancel_order of it returns false).
C18_UntriggeredDropped ==
    [][(/\ last'.op = "process_order"
        /\ last'.arg.order_type[1] \in {"Stop", "StopLimit"}
        /\ ~TriggerMet(last'.arg.side, last'.arg.order_type[2])) =>
         /\ NewTrades = <<>>
         /\ bids' = bids
         /\ asks' = asks
         /\ last'.arg.id \notin DOMAIN orders_by_id']_vars

\* the orders of level `price` of a ladder; none when there is no such level
LevelAt(level_map, price) ==
    IF price \in DOMAIN level_map THEN level_map[price] ELSE <<>>

\* C19: a triggered StopLimit(trigger, limit) order behaves as a Limit order
\* whose price is `limit`, whatever its price field carries: it emits that
\* Limit order's trades, all at prices within `limit`, and an unfilled
\* residual rests on its own side in the level keyed by `limit`.
C19_StopLimitAsLimit ==
    [][(/\ last'.op = "process_order"
        /\ last'.arg.order_type[1] = "StopLimit"
        /\ TriggerMet(last'.arg.side, last'.arg.order_type[2])) =>
         LET order == last'.arg
             limit == order.order_type[3]
             as_limit == ProcessOrderResult(
                             Book, [order EXCEPT !.order_type = <<"Limit">>, !.price = limit])
             own == IF order.side = "Buy" THEN bids' ELSE asks'
         IN /\ NewTrades = as_limit.trades
            /\ \A i \in 1..Len(NewTrades) : WithinLimit(order.side, limit, NewTrades[i].price)
            /\ TradedQty(NewTrades, order.id) < order.quantity
               => \E i \in 1..Len(LevelAt(own, limit)) :
                     /\ LevelAt(own, limit)[i].id = order.id
                     /\ LevelAt(own, limit)[i].remaining_quantity
                          = order.quantity - TradedQty(NewTrades, order.id)]_vars

\* a level without the order of this id
RECURSIVE Without(_, _)
Without(orders, id) ==
    IF orders = <<>> THEN <<>>
    ELSE IF Head(orders).id = id THEN Without(Tail(orders), id)
    ELSE <<Head(orders)>> \o Without(Tail(orders), id)

\* ladder `after` is ladder `before` with the order of this id taken out of
\* its level, and that level dropped if nothing is left in it
LadderWithout(before, after, id) ==
    /\ DOMAIN after \subseteq DOMAIN before
    /\ \A k \in DOMAIN before :
         IF Without(before[k], id) = <<>> /\ before[k] # <<>>
         THEN k \notin DOMAIN after
         ELSE k \in DOMAIN after /\ after[k] = Without(before[k], id)

\* C20: cancel_order(id) of a resting order returns true; afterwards the id
\* is in neither ladder nor the index, its level is removed if it became
\* empty, every other resting order keeps its side, price, remaining
\* quantity and queue position, and the trade-id counter and the cumulative
\* volume are unchanged.
C20_CancelResting ==
    [][(last'.op = "cancel_order" /\ last'.arg \in RestingIds) =>
         /\ last'.ret = TRUE
         /\ last'.arg \notin {o.id : o \in Resting(bids') \cup Resting(asks')}
         /\ last'.arg \notin DOMAIN orders_by_id'
         /\ LadderWithout(bids, bids', last'.arg)
         /\ LadderWithout(asks, asks', last'.arg)
         /\ last_trade_id' = last_trade_id
         /\ stats'.volume = stats.volume]_vars

\* a resting order was cancelled out of a book that had traded, and another
\* order still rests
C20_Witness ==
    /\ Called("cancel_order")
    /\ last.removed
    /\ last.ret = TRUE
    /\ last.arg \notin DOMAIN orders_by_id
    /\ RestingIds # {}
    /\ stats.volume > 0

\* the statuses after which an order takes no further part in the book
Terminal == {"Filled", "Canceled", "Rejected"}

\* C21: cancel_order(id) returns false and changes no book state when the
\* id is absent from the index or names an order whose status is terminal
\* (a completely filled order, an id that was already canceled).
C21_CancelRefused ==
    [][(/\ last'.op = "cancel_order"
        /\ \/ last'.arg \notin DOMAIN orders_by_id
           \/ orders_by_id[last'.arg].status \in Terminal) =>
         /\ last'.ret = FALSE
         /\ UNCHANGED <<bids, asks, orders_by_id, stats, last_trade_id>>]_vars

\* C22: process_order of an order whose symbol differs from the book's is
\* rejected: it returns no trades and mutates nothing; both ladders, the
\* index, the stats (last_update_time included) and the trade-id counter
\* are unchanged.
C22_SymbolMismatch ==
    [][(last'.op = "process_order" /\ last'.arg.symbol # BookSymbol) =>
         /\ last'.ret = <<>>
         /\ NewTrades = <<>>
         /\ UNCHANGED <<bids, asks, orders_by_id, stats, last_trade_id>>]_vars

\* an order of another symbol was refused although an order it would have
\* traded with rests on the opposite side
C22_Witness ==
    /\ Called("process_order")
    /\ last.arg.symbol = OtherSymbol
    /\ last.arg.order_type = <<"Limit">>
    /\ last.arg.quantity > 0
    /\ last.ret = <<>>
    /\ \E o \in Resting(IF last.arg.side = "Buy" THEN asks ELSE bids) :
         WithinLimit(last.arg.side, last.arg.price, o.price)

\* C23: process_order of an order with quantity 0 is rejected, whatever its
\* type: no trades, and no book mutation; the order is not recorded in the
\* index, the ladders are unchanged and the stats are unchanged.
C23_ZeroQuantity ==
    [][(last'.op = "process_order" /\ last'.arg.quantity = 0) =>
         /\ last'.ret = <<>>
         /\ UNCHANGED <<bids, asks, orders_by_id, stats>>]_vars

\* the ladder entries that carry this id
EntriesOf(level_map, id) == {o \in Resting(level_map) : o.id = id}

\* C24: process_order of an order whose id is already in the index is
\* rejected: it returns no trades, and the existing order's index record and
\* ladder entry are left exactly as they were.
C24_DuplicateId ==
    [][(last'.op = "process_order" /\ last'.arg.id \in DOMAIN orders_by_id) =>
         /\ last'.ret = <<>>
         /\ last'.arg.id \in DOMAIN orders_by_id'
         /\ orders_by_id'[last'.arg.id] = orders_by_id[last'.arg.id]
         /\ EntriesOf(bids', last'.arg.id) = EntriesOf(bids, last'.arg.id)
         /\ EntriesOf(asks', last'.arg.id) = EntriesOf(asks, last'.arg.id)]_vars

\* the number of orders in the levels of a ladder
RestingCount(level_map) ==
    Cardinality(UNION {{<<k, i>> : i \in 1..Len(level_map[k])} : k \in DOMAIN level_map})

\* the quantities of the trades emitted since the book was created
EmittedQuantities == [i \in 1..Len(tradeLog) |-> tradeLog[i].quantity]

\* C25: after every process_order call and every successful cancel_order
\* call, stats() agrees with the book: best_bid and best_ask equal
\* best_bid() and best_ask(), the order counts equal the number of orders
\* resting on each side, and volume and trade_count equal the total
\* quantity and the number of all trades emitted so far.
C25_StatsAgree ==
    ~panicked =>
        /\ stats.best_bid = best_bid(bids)
        /\ stats.best_ask = best_ask(asks)
        /\ stats.bid_order_count = RestingCount(bids)
        /\ stats.ask_order_count = RestingCount(asks)
        /\ stats.volume = SumSeq(EmittedQuantities)
        /\ stats.trade_count = Len(tradeLog)

\* one call emitted two trades, counted one by one, and a successful cancel
\* took the last resting order out after a trade
C25_Witness ==
    \/ /\ Called("process_order")
       /\ Len(last.ret) = 2
       /\ stats.trade_count = 2
       /\ stats.volume = 2
    \/ /\ Called("cancel_order")
       /\ last.removed
       /\ stats.trade_count = 1
       /\ stats.bid_order_count = 0
       /\ stats.ask_order_count = 0

\* the total remaining of the orders of one level
LevelTotal(level_map, price) ==
    SumSeq([i \in 1..Len(level_map[price]) |-> level_map[price][i].remaining_quantity])

\* one side of a market_depth result against its ladder: the number of
\* pairs, their prices in the order `Before`, the first at the best price,
\* each total the sum over its level
DepthSideOk(pairs, level_map, levels, Before(_, _), best) ==
    /\ Len(pairs) = MinOf(levels, Cardinality(DOMAIN level_map))
    /\ \A i \in 1..Len(pairs) :
         /\ pairs[i][1] \in DOMAIN level_map
         /\ pairs[i][2] = LevelTotal(level_map, pairs[i][1])
    /\ \A i, j \in 1..Len(pairs) : i < j => Before(pairs[i][1], pairs[j][1])
    /\ Len(pairs) > 0 => Some(pairs[1][1]) = best

Descending(p, q) == p > q

Ascending(p, q) == p < q

\* C26: market_depth(n) returns, for each side, min(n, number of price
\* levels) pairs (price, total): bids in strictly descending price from the
\* best bid, asks in strictly ascending price from the best ask, total being
\* the sum of remaining over the orders at that price; the book is unchanged.
C26_MarketDepth ==
    [][last'.op = "market_depth" =>
         /\ DepthSideOk(last'.ret[1], bids, last'.arg, Descending, best_bid(bids))
         /\ DepthSideOk(last'.ret[2], asks, last'.arg, Ascending, best_ask(asks))
         /\ UNCHANGED <<bids, asks, orders_by_id, stats, last_trade_id>>]_vars

\* market_depth(1) on a book with two bid levels returned the better one,
\* which holds two orders
C26_Witness ==
    /\ Called("market_depth")
    /\ last.arg = 1
    /\ Cardinality(DOMAIN bids) = 2
    /\ Len(bids[Max(DOMAIN bids)]) = 2
    /\ Len(last.ret[1]) = 1
    /\ last.ret[1][1][2] > MaxQty

\* the sum of price times fill over the walk of calculate_slippage, computed
\* exactly: Some(sum), or None when the sum passes u64::MAX
RECURSIVE ExactCost(_, _)
ExactCost(orders, remaining) ==
    IF remaining = 0 \/ orders = <<>> THEN Some(0)
    ELSE LET fill == MinOf(remaining, Head(orders).remaining_quantity)
             rest == ExactCost(Tail(orders), remaining - fill)
         IN IF rest = None \/ MulWraps(Head(orders).price, fill) THEN None
            ELSE IF AddWraps(Head(orders).price * fill, rest[1]) THEN None
            ELSE Some(Head(orders).price * fill + rest[1])

\* the resting orders a taker of this side meets, best price first and in
\* queue order within a level, before the step
MatchingOrder(side) ==
    VisitOrder(OppositeOf(side), WalkKeys(DOMAIN OppositeOf(side), side))

\* C27: calculate_slippage(side, q) with q > 0 returns None exactly when the
\* total remaining on the opposite ladder is less than q, and otherwise the
\* integer quotient of the sum of price times fill by q, the fills taken in
\* matching order; the book is unchanged.
C27_Slippage ==
    [][(last'.op = "calculate_slippage" /\ last'.arg[2] > 0) =>
         LET side == last'.arg[1]
             q == last'.arg[2]
             short == SumRemaining(Resting(OppositeOf(side))) < q
         IN /\ ~panicked'
            /\ (last'.ret = None) <=> short
            /\ ~short => /\ ExactCost(MatchingOrder(side), q) # None
                          /\ last'.ret = Some(ExactCost(MatchingOrder(side), q)[1] \div q)
            /\ UNCHANGED <<bids, asks, orders_by_id, stats, last_trade_id>>]_vars

\* C28: when the accumulated cost of calculate_slippage exceeds the 64-bit
\* unsigned range the call returns None: no average is computed from a
\* wrapped sum and the call does not fault.
C28_SlippageOverflow ==
    [][(/\ last'.op = "calculate_slippage"
        /\ ExactCost(MatchingOrder(last'.arg[1]), last'.arg[2]) = None) =>
         /\ ~panicked'
         /\ last'.ret = None]_vars

\* an order, a ladder, the index, a trade sequence and the book with every
\* user id replaced by that of the first account
EraseOrder(o) == [o EXCEPT !.user_id = FirstUser]

EraseLevels(level_map) ==
    [k \in DOMAIN level_map |->
        [i \in 1..Len(level_map[k]) |-> EraseOrder(level_map[k][i])]]

EraseIndex(index) == [id \in DOMAIN index |-> EraseOrder(index[id])]

EraseTrades(trades) ==
    [i \in 1..Len(trades) |->
        [trades[i] EXCEPT !.buy_user_id = FirstUser, !.sell_user_id = FirstUser]]

EraseBook(b) ==
    [b EXCEPT !.bids = EraseLevels(@), !.asks = EraseLevels(@),
              !.orders_by_id = EraseIndex(@)]

\* C29: self-trades are not prevented and user ids never influence
\* matching.  Every call does to the book with its user ids erased what it
\* does to the book itself: it emits trades with the same ids, prices,
\* quantities and order ids and leaves the same ladders and index.  So two
\* runs of one operation sequence that differ only in user ids emit the same
\* trades and end in the same ladders, and one of them is the run in which
\* every order carries the same user id.
C29_UserIdsInert ==
    [][LET r == ProcessOrderResult(EraseBook(Book), EraseOrder(last'.arg))
           c == CancelOrderResult(EraseBook(Book), last'.arg)
       IN /\ (last'.op = "process_order") =>
                (/\ r.panic = panicked'
                 /\ (~r.panic) =>
                       (/\ EraseTrades(NewTrades) = r.trades
                        /\ EraseLevels(bids') = r.bids
                        /\ EraseLevels(asks') = r.asks
                        /\ EraseIndex(orders_by_id') = r.orders_by_id
                        /\ last_trade_id' = r.last_trade_id))
          /\ (last'.op = "cancel_order") =>
                (/\ EraseLevels(bids') = c.bids
                 /\ EraseLevels(asks') = c.asks
                 /\ EraseIndex(orders_by_id') = c.orders_by_id)]_vars

\* an incoming order traded with a resting order of the same account, ahead
\* of a resting order of another account
C29_Witness ==
    /\ Called("process_order")
    /\ Len(last.ret) = 1
    /\ last.ret[1].buy_user_id = last.ret[1].sell_user_id
    /\ \E o \in Resting(bids) \cup Resting(asks) :
         /\ o.user_id # last.arg.user_id
         /\ o.side # last.arg.side

\* C30: every trade emitted by process_order has quantity > 0, equal to the
\* minimum of the taker's remaining and the resting order's remaining at
\* the moment of the match.
C30_TradeQuantity ==
    [][last'.op = "process_order" =>
         \A i \in 1..Len(NewTrades) :
            LET taker == last'.arg
                taker_remaining ==
                    taker.quantity - TradedQty(SubSeq(NewTrades, 1, i - 1), taker.id)
                resting == Entry(MakerId(NewTrades[i], taker.side))
                resting_remaining ==
                    resting.remaining_quantity
                        - TradedQty(SubSeq(NewTrades, 1, i - 1), resting.id)
            IN /\ NewTrades[i].quantity > 0
               /\ NewTrades[i].quantity <= taker_remaining
               /\ NewTrades[i].quantity <= resting_remaining
               /\ NewTrades[i].quantity \in {taker_remaining, resting_remaining}]_vars

\* the second trade of a call was cut to what the taker still wanted and
\* left its resting order partly filled
C30_Witness ==
    /\ Called("process_order")
    /\ Len(last.ret) = 2
    /\ last.ret[2].quantity < MaxQty
    /\ \E o \in Resting(bids) \cup Resting(asks) :
         /\ o.id = MakerId(last.ret[2], last.arg.side)
         /\ o.remaining_quantity > 0
         /\ o.remaining_quantity < o.quantity

\* C31: under Order's ordering, of two Buy orders with equal timestamps the
\* one with the higher price compares greater than the one with the lower.
C31_BuyOrdering ==
    (/\ Called("cmp")
     /\ last.arg[1].side = "Buy"
     /\ last.arg[2].side = "Buy"
     /\ last.arg[1].timestamp = last.arg[2].timestamp
     /\ last.arg[1].price > last.arg[2].price) => last.ret = "Greater"

\* the powers of two up to the first one past every value observed
PowersOfTwo == {2 ^ k : k \in 0..MaxBit}

Distance(x, y) == IF x >= y THEN x - y ELSE y - x

\* C32: Histogram::bucket_for rounds every value v > 0 to the power of two
\* nearest to v (1000 maps to 1024) and maps 0 to 0.
C32_NearestPowerOfTwo ==
    Called("bucket_for") =>
        IF last.arg = 0 THEN last.ret = 0
        ELSE /\ last.ret \in PowersOfTwo
             /\ \A p \in PowersOfTwo :
                  Distance(last.ret, last.arg) <= Distance(p, last.arg)


\* C33: the TradeStore keeps every trade handed to add_trades, over several
\* runs on one file: count() is the number of trades added, and every trade
\* added is among those get_all_trades returns
C33_StoreRetains ==
    /\ count(trade_store) = Len(added)
    /\ \A i \in DOMAIN added : added[i] \in get_all_trades(trade_store)


\* the order records the book holds: ladder entries and index records
Held == Resting(bids) \cup Resting(asks) \cup {orders_by_id[id] : id \in DOMAIN orders_by_id}

\* C34: after every process_order or cancel_order call returns, every order
\* stored in a ladder level has 0 < remaining <= quantity and status New or
\* PartiallyFilled.
C34_RestingShape ==
    ~panicked =>
        \A o \in Resting(bids) \cup Resting(asks) :
            /\ 0 < o.remaining_quantity
            /\ o.remaining_quantity <= o.quantity
            /\ o.status \in {"New", "PartiallyFilled"}

\* a call has traded and left a partly filled order in a ladder
C34_Witness ==
    /\ ~panicked
    /\ Called("process_order")
    /\ last.ret # <<>>
    /\ \E o \in Resting(bids) \cup Resting(asks) :
         /\ o.status = "PartiallyFilled"
         /\ 0 < o.remaining_quantity
         /\ o.remaining_quantity < o.quantity

\* C35: every order record the book holds, in the index or in a ladder, has
\* remaining <= quantity, and remaining = 0 exactly when its status is Filled.
C35_RecordShape ==
    ~panicked =>
        \A o \in Held :
            /\ o.remaining_quantity <= o.quantity
            /\ (o.remaining_quantity = 0) <=> (o.status = "Filled")


\* C36: over process_order calls with pairwise distinct ids and cancel_order
\* calls, the assertion of Order::fill_partial never fails: not on the
\* taker, not on the taker's index record, not on the resting order.
C36_AssertionHolds == ~panicked

\* a call has just filled its order against two resting orders
C36_Witness ==
    /\ ~panicked
    /\ Called("process_order")
    /\ Len(last.ret) = 2
    /\ last.ret[1].quantity + last.ret[2].quantity = last.arg.quantity


\* every entry of a ladder is of the given side and stored under its price
SideAndKey(level_map, side) ==
    \A k \in DOMAIN level_map : \A i \in 1..Len(level_map[k]) :
        /\ level_map[k][i].side = side
        /\ level_map[k][i].price = k

\* C38: over process_order calls with pairwise distinct ids and cancel_order
\* calls, every order stored in bids is a Buy order and every order stored
\* in asks is a Sell order, each under the level key equal to its own price
\* field, and no order id occurs more than once across both ladders.
C38_LadderWellFormed ==
    ~panicked =>
        /\ SideAndKey(bids, "Buy")
        /\ SideAndKey(asks, "Sell")
        /\ RestingCount(bids) + RestingCount(asks) = Cardinality(RestingIds)

\* a call has traded and orders rest in both ladders
C38_Witness ==
    /\ ~panicked
    /\ Called("process_order")
    /\ last.ret # <<>>
    /\ RestingCount(bids) >= 1
    /\ RestingCount(asks) >= 1


\* total remaining quantity of the orders stored in a ladder
RECURSIVE RemainingIn(_, _)
RemainingIn(level_map, keys) ==
    IF keys = {} THEN 0
    ELSE LET k == CHOOSE x \in keys : TRUE
         IN SumSeq([i \in 1..Len(level_map[k]) |-> level_map[k][i].remaining_quantity])
            + RemainingIn(level_map, keys \ {k})

\* the ladder opposite to the order of the call in flight, now and next
OppositeNow == IF matching[1].submitted.side = "Buy" THEN asks ELSE bids

OppositeNext == IF matching[1].submitted.side = "Buy" THEN asks' ELSE bids'

\* what one iteration does: it removes an empty level of the opposite
\* ladder, or it emits one trade of positive quantity and the remaining
\* quantity of the opposite ladder or of the taker goes down
IterationProgress ==
    (matching # None /\ matching' # None) =>
        \/ /\ \E k \in DOMAIN OppositeNow :
                 OppositeNow[k] = <<>> /\ OppositeNext = MapRemove(OppositeNow, k)
           /\ matching'[1].trades = matching[1].trades
        \/ /\ Len(matching'[1].trades) = Len(matching[1].trades) + 1
           /\ matching'[1].trades[Len(matching'[1].trades)].quantity > 0
           /\ \/ RemainingIn(OppositeNext, DOMAIN OppositeNext)
                   < RemainingIn(OppositeNow, DOMAIN OppositeNow)
              \/ matching'[1].order.remaining_quantity < matching[1].order.remaining_quantity

\* C37: every process_order call terminates: each iteration of the matching
\* loop removes an empty level of the opposite ladder or emits a trade of
\* positive quantity that reduces the total remaining of the opposite side
\* or the taker's remaining, and every call that has started returns.
C37_Terminates ==
    /\ [][IterationProgress]_vars
    /\ (matching # None) ~> (matching = None)

\* a loop has ended after it traded and removed an empty level
C37_Witness ==
    /\ matching # None
    /\ ~LoopContinues(Running)
    /\ matching[1].removed >= 1
    /\ matching[1].trades # <<>>


\* the sum of price times quantity over a sequence of trades, or None when
\* it passes u64::MAX
RECURSIVE TradeCost(_)
TradeCost(trades) ==
    IF trades = <<>> THEN Some(0)
    ELSE LET rest == TradeCost(Tail(trades))
             t == Head(trades)
         IN IF rest = None \/ MulWraps(t.price, t.quantity) THEN None
            ELSE IF AddWraps(t.price * t.quantity, rest[1]) THEN None
            ELSE Some(t.price * t.quantity + rest[1])

\* the trades process_order would return for a Market order of this side
\* and quantity submitted on the book as it is before the step
MarketTrades(side, quantity) ==
    ProcessOrderResult(Book, new_market(nextId, quantity, side, MaxTs)).trades

\* C39: on the same book and for q > 0, calculate_slippage(side, q) returns
\* Some((avg, _)) exactly when a Market order of that side and quantity q
\* submitted next would be filled completely, and avg is then the integer
\* quotient of the sum of price times quantity over its trades by q.
C39_SlippagePredicts ==
    [][(last'.op = "calculate_slippage" /\ last'.arg[2] > 0) =>
         LET q == last'.arg[2]
             trades == MarketTrades(last'.arg[1], q)
             filled == SumSeq([i \in 1..Len(trades) |-> trades[i].quantity]) = q
         IN /\ ~panicked'
            /\ (last'.ret # None) <=> filled
            /\ filled => /\ TradeCost(trades) # None
                         /\ last'.ret = Some(TradeCost(trades)[1] \div q)]_vars

\* C40: calculate_slippage never divides by zero: for every book and every
\* quantity, quantity 0 on a non-empty opposite ladder included, the call
\* returns None or Some and does not fault.
C40_NoDivisionByZero ==
    [][(last'.op = "calculate_slippage" /\ ~panicked) =>
         /\ ~panicked'
         /\ last'.ret = None \/ Len(last'.ret) = 1]_vars

====
